---------------------------- MODULE Spec2Model ----------------------------
(***************************************************************************)
(* A model of contrib_counter/count_contribs.py.                           *)
(*                                                                         *)
(*   Spec         fetch_all_contributions driving fetch_contributions      *)
(*                against a remote that answers every request with any     *)
(*                response of the fixed schema (or an `errors` payload).   *)
(*   SpecHeatmap  generate_plotly_heatmap on bounded lists of timestamps.  *)
(*   SpecCap      the cap of line 250 on labelled five-row grids.          *)
(***************************************************************************)
EXTENDS Integers, Sequences, FiniteSets, TLC

VARIABLES
    \* main / fetch_all_contributions
    start_date,         \* start_datetime (line 389): [year, month, day]
    end_date,           \* end_datetime (line 390)
    year_offset,        \* the for-loop index of line 184
    all_contributions,  \* `contributions` of fetch_all_contributions (line 183)
    calls,              \* from_date of every fetch_contributions invocation
    \* fetch_contributions
    from_date,          \* its from_date argument
    contributions,      \* its `contributions` (line 103)
    cursor,             \* its `cursor` (line 104)
    log,                \* every request posted, with the response received
    pc,                 \* "loop" | "fetch" | "done" | "raised"
    exc,                \* the exception that ended the run, "" if none
    \* generate_plotly_heatmap
    dates,              \* its `dates` argument
    hpc,                \* "input" | "done" | "raised"
    df,                 \* the frame after the weekend filter (line 223)
    pivot,              \* heatmap_data as built by pivot_table (line 228)
    heatmap_data        \* heatmap_data after the cap (line 250)

fetchVars == <<start_date, end_date, year_offset, all_contributions, calls,
               from_date, contributions, cursor, log, pc, exc>>
heatVars == <<dates, hpc, df, pivot, heatmap_data>>
vars == <<fetchVars, heatVars>>

---------------------------------------------------------------------------
(* Bounds *)

MaxYears == 2       \* --start and --end lie in 2020 .. 2020 + MaxYears
MaxRequests == 4    \* requests posted in one run
MaxRepos == 2       \* entries of commitContributionsByRepository in a response
MaxDates == 5       \* timestamps handed to generate_plotly_heatmap
HalfWindow == 4     \* event days: the last and the first HalfWindow days of a year
MaxCount == 25      \* cell values of the grids the cap is applied to

---------------------------------------------------------------------------
(* Calendar (datetime) *)

IsLeap(y) == (y % 4 = 0) /\ ((y % 100 # 0) \/ (y % 400 = 0))

DaysInMonth(y, m) ==
    IF m = 2 THEN (IF IsLeap(y) THEN 29 ELSE 28)
    ELSE IF m \in {4, 6, 9, 11} THEN 30 ELSE 31

ValidDate(y, m, d) == m \in 1..12 /\ d \in 1..DaysInMonth(y, m)

Date(y, m, d) == [year |-> y, month |-> m, day |-> d]

\* datetime comparison
DateLess(a, b) ==
    \/ a.year < b.year
    \/ a.year = b.year /\ a.month < b.month
    \/ a.year = b.year /\ a.month = b.month /\ a.day < b.day

\* datetime.strftime("%Y-%m-%d"): the text, as its three fields
Strftime(d) == <<d.year, d.month, d.day>>

\* datetime.strptime(s, "%Y-%m-%d")
Strptime(s) == Date(s[1], s[2], s[3])

\* datetime.replace(year=y) raises ValueError when the day does not exist in y
ReplaceYearRaises(d, y) == ~ValidDate(y, d.month, d.day)
ReplaceYear(d, y) == Date(y, d.month, d.day)

---------------------------------------------------------------------------
(* The remote API *)

Username == "CristiGuijarro"

None == <<>>    \* Python's None (and the empty string): the falsy cursor

Node(stamp) == [occurredAt |-> stamp]

PageInfo(more, cur) == [hasNextPage |-> more, endCursor |-> cur]

Collection(stamp, more) ==
    [nodes |-> <<Node(stamp)>>, pageInfo |-> PageInfo(more, <<stamp>>)]

\* The n-th response of a run, error-free: k repository entries, the first
\* reporting hasNextPage = more and the later ones the opposite, and the four
\* other sub-collections reporting hasNextPage = others. Nodes and cursors
\* are tagged with n, so no two responses share one.
DataResponse(n, k, more, others) ==
    [errors |-> FALSE,
     commitContributionsByRepository |->
        [i \in 1..k |->
            [contributions |-> Collection(10 * n + i, IF i = 1 THEN more ELSE ~more)]],
     issueContributions |-> Collection(10 * n + 6, others),
     pullRequestContributions |-> Collection(10 * n + 7, others),
     pullRequestReviewContributions |-> Collection(10 * n + 8, others),
     repositoryContributions |-> Collection(10 * n + 9, others)]

\* A response carrying `errors` (its data is not read)
ErrorResponse(n) ==
    [errors |-> TRUE,
     commitContributionsByRepository |-> <<>>,
     issueContributions |-> Collection(10 * n + 6, FALSE),
     pullRequestContributions |-> Collection(10 * n + 7, FALSE),
     pullRequestReviewContributions |-> Collection(10 * n + 8, FALSE),
     repositoryContributions |-> Collection(10 * n + 9, FALSE)]

Responses(n) ==
    {ErrorResponse(n)} \cup
    {DataResponse(n, k, more, others) :
        k \in 0..MaxRepos, more \in BOOLEAN, others \in BOOLEAN}

---------------------------------------------------------------------------
(* get_contributions_query, extract_contributions, get_page_info *)

\* get_contributions_query with the after clause left out
GetContributionsQueryNoCursor(username, from, cur) ==
    [login |-> username, from |-> from, after |-> <<>>]

\* The query text, as the three values it is formatted from; the after
\* clause is present only for a truthy cursor (line 22).
GetContributionsQuery(username, from, cur) ==
    [login |-> username, from |-> from,
     after |-> IF cur # None THEN <<cur>> ELSE <<>>]

RECURSIVE CommitNodes(_)
CommitNodes(repos) ==
    IF repos = <<>> THEN <<>>
    ELSE Head(repos).contributions.nodes \o CommitNodes(Tail(repos))

ExtractContributions(contributions_data) ==
    CommitNodes(contributions_data.commitContributionsByRepository)
        \o contributions_data.issueContributions.nodes
        \o contributions_data.pullRequestContributions.nodes

\* commitContributionsByRepository[0] raises IndexError on an empty list
GetPageInfoRaises(contributions_data) ==
    contributions_data.commitContributionsByRepository = <<>>

\* get_page_info also looking at the issue sub-collection's flag
GetPageInfoAnyCollection(contributions_data) ==
    LET c == contributions_data.commitContributionsByRepository[1].contributions.pageInfo
    IN  [hasNextPage |-> c.hasNextPage
                         \/ contributions_data.issueContributions.pageInfo.hasNextPage,
         endCursor |-> c.endCursor]

GetPageInfo(contributions_data) ==
    LET commit_page_info ==
            contributions_data.commitContributionsByRepository[1].contributions.pageInfo
    IN  [hasNextPage |-> commit_page_info.hasNextPage,
         endCursor |-> commit_page_info.endCursor]

---------------------------------------------------------------------------
(* fetch_contributions: one pass of its while loop *)

\* The loop body with the accumulated events dropped on an errors response
LoopBodyDropsOnErrors(contribs, cur, data) ==
    IF data.errors
    THEN [contributions |-> <<>>, cursor |-> cur, ctl |-> "break"]
    ELSE LET got == contribs \o ExtractContributions(data)
         IN  IF GetPageInfoRaises(data)
             THEN [contributions |-> got, cursor |-> cur, ctl |-> "IndexError"]
             ELSE IF GetPageInfo(data).hasNextPage
                  THEN [contributions |-> got,
                        cursor |-> GetPageInfo(data).endCursor, ctl |-> "continue"]
                  ELSE [contributions |-> got, cursor |-> cur, ctl |-> "break"]

\* Lines 113-125 on the response `data`: the locals afterwards, and how the
\* pass ends ("continue", "break", or the exception raised).
LoopBody(contribs, cur, data) ==
    IF data.errors
    THEN [contributions |-> contribs, cursor |-> cur, ctl |-> "break"]
    ELSE LET got == contribs \o ExtractContributions(data)
         IN  IF GetPageInfoRaises(data)
             THEN [contributions |-> got, cursor |-> cur, ctl |-> "IndexError"]
             ELSE IF GetPageInfo(data).hasNextPage
                  THEN [contributions |-> got,
                        cursor |-> GetPageInfo(data).endCursor, ctl |-> "continue"]
                  ELSE [contributions |-> got, cursor |-> cur, ctl |-> "break"]

---------------------------------------------------------------------------
(* Inputs of main *)

Years == 2020..(2020 + MaxYears)

MonthDays == {<<2, 29>>, <<6, 15>>}

\* The dates --start and --end can name (strptime rejects any other)
InputDates ==
    {dt \in {Strptime(<<y, md[1], md[2]>>) : y \in Years, md \in MonthDays} :
        ValidDate(dt.year, dt.month, dt.day)}

HeatIdle ==
    /\ dates = <<>>
    /\ hpc = "idle"
    /\ df = {}
    /\ pivot = <<>>
    /\ heatmap_data = <<>>

Init ==
    /\ start_date \in InputDates
    /\ end_date \in InputDates
    /\ year_offset = 0
    /\ all_contributions = <<>>
    /\ calls = <<>>
    /\ from_date = <<>>
    /\ contributions = <<>>
    /\ cursor = None
    /\ log = <<>>
    /\ pc = "loop"
    /\ exc = ""
    /\ HeatIdle

---------------------------------------------------------------------------
(* fetch_all_contributions *)

\* Lines 184-187 and 103-104: the next year window is entered and
\* fetch_contributions is called, or replace() raises.
NextYear ==
    /\ pc = "loop"
    /\ year_offset < end_date.year - start_date.year
    /\ IF ReplaceYearRaises(start_date, start_date.year + year_offset)
       THEN /\ pc' = "raised"
            /\ exc' = "ValueError"
            /\ UNCHANGED <<calls, from_date, contributions, cursor>>
       ELSE LET current_start == ReplaceYear(start_date, start_date.year + year_offset)
            IN  /\ from_date' = Strftime(current_start)
                /\ calls' = Append(calls, Strftime(current_start))
                /\ contributions' = <<>>
                /\ cursor' = None
                /\ pc' = "fetch"
                /\ exc' = exc
    /\ UNCHANGED <<start_date, end_date, year_offset, all_contributions, log, heatVars>>

\* Lines 107-127 and 186: one request and its response; on a break the
\* call returns and its list is appended to the run's.
FetchPage(data) ==
    /\ pc = "fetch"
    /\ Len(log) < MaxRequests
    /\ LET query == GetContributionsQuery(Username, from_date, cursor)
           after == LoopBody(contributions, cursor, data)
       IN  /\ log' = Append(log, [window |-> Len(calls), query |-> query, data |-> data])
           /\ contributions' = after.contributions
           /\ cursor' = after.cursor
           /\ CASE after.ctl = "continue" ->
                    /\ pc' = "fetch"
                    /\ UNCHANGED <<all_contributions, year_offset, exc>>
                [] after.ctl = "break" ->
                    /\ all_contributions' = all_contributions \o after.contributions
                    /\ year_offset' = year_offset + 1
                    /\ pc' = "loop"
                    /\ exc' = exc
                [] OTHER ->
                    /\ pc' = "raised"
                    /\ exc' = after.ctl
                    /\ UNCHANGED <<all_contributions, year_offset>>
    /\ UNCHANGED <<start_date, end_date, calls, from_date, heatVars>>

\* Line 190
ReturnAll ==
    /\ pc = "loop"
    /\ year_offset >= end_date.year - start_date.year
    /\ pc' = "done"
    /\ UNCHANGED <<start_date, end_date, year_offset, all_contributions, calls,
                   from_date, contributions, cursor, log, exc, heatVars>>

Next ==
    \/ NextYear
    \/ \E data \in Responses(Len(log) + 1) : FetchPage(data)
    \/ ReturnAll

Spec == Init /\ [][Next]_vars


---------------------------------------------------------------------------
(* Timestamps (pandas) *)

RECURSIVE DaysBeforeMonth(_, _)
DaysBeforeMonth(y, m) ==
    IF m = 1 THEN 0 ELSE DaysBeforeMonth(y, m - 1) + DaysInMonth(y, m - 1)

DaysBeforeYear(y) ==
    (y - 1) * 365 + ((y - 1) \div 4) - ((y - 1) \div 100) + ((y - 1) \div 400)

\* The proleptic Gregorian ordinal of a date (0001-01-01 is day 1, a Monday)
Ordinal(y, m, d) == DaysBeforeYear(y) + DaysBeforeMonth(y, m) + d

\* pd.to_datetime(..., utc=True) of an ISO-8601 "...Z" text, given as the
\* fields <<year, month, day, hour>> it spells
ToDatetime(s) == [year |-> s[1], month |-> s[2], day |-> s[3], hour |-> s[4]]

\* .dt.weekday: Monday is 0
Weekday(t) == (Ordinal(t.year, t.month, t.day) + 6) % 7

\* The ordinal of the Monday of ISO week 1 of year y
IsoWeek1Monday(y) ==
    LET firstday == Ordinal(y, 1, 1)
        firstweekday == (firstday + 6) % 7
    IN  IF firstweekday > 3 THEN firstday - firstweekday + 7
        ELSE firstday - firstweekday

\* .dt.isocalendar().week
IsoWeek(t) ==
    LET today == Ordinal(t.year, t.month, t.day)
        week == (today - IsoWeek1Monday(t.year)) \div 7
    IN  IF today < IsoWeek1Monday(t.year)
        THEN ((today - IsoWeek1Monday(t.year - 1)) \div 7) + 1
        ELSE IF week >= 52 /\ today >= IsoWeek1Monday(t.year + 1)
             THEN 1
             ELSE week + 1

\* .dt.year: the calendar year
YearOf(t) == t.year

---------------------------------------------------------------------------
(* generate_plotly_heatmap *)

Range(f) == {f[i] : i \in DOMAIN f}

\* Lines 213-217: one row per distinct timestamp, with its number of events
GroupByDate(parsed) ==
    {[date |-> t, count |-> Cardinality({i \in DOMAIN parsed : parsed[i] = t})] :
        t \in Range(parsed)}

\* Lines 219-225: the weekday, week and year columns, weekends filtered out
WeekdayRows(grouped) ==
    {[date |-> r.date, count |-> r.count, weekday |-> Weekday(r.date),
      week |-> IsoWeek(r.date), year |-> YearOf(r.date)] :
        r \in {g \in grouped : Weekday(g.date) < 5}}

RECURSIVE SortInts(_)
SortInts(S) ==
    IF S = {} THEN <<>>
    ELSE LET m == CHOOSE x \in S : \A y \in S : x <= y
         IN  <<m>> \o SortInts(S \ {m})

ColumnLess(a, b) == a[1] < b[1] \/ (a[1] = b[1] /\ a[2] < b[2])

RECURSIVE SortColumns(_)
\* The (year, week) column labels in the order of the pivot's MultiIndex
SortColumns(S) ==
    IF S = {} THEN <<>>
    ELSE LET m == CHOOSE x \in S : \A y \in S \ {x} : ColumnLess(x, y)
         IN  <<m>> \o SortColumns(S \ {m})

RECURSIVE SumCounts(_)
SumCounts(rows) ==
    IF rows = {} THEN 0
    ELSE LET r == CHOOSE x \in rows : TRUE
         IN  r.count + SumCounts(rows \ {r})

\* A cell value: the exact quotient num / den
Cell(n, d) == [num |-> n, den |-> d]

\* pivot_table's aggfunc (its default, "mean") and fill_value=0
Aggregate(group) ==
    IF group = {} THEN Cell(0, 1)
    ELSE Cell(SumCounts(group), Cardinality(group))

\* Lines 228-230
PivotTable(rows) ==
    LET idx == SortInts({r.weekday : r \in rows})
        cols == SortColumns({<<r.year, r.week>> : r \in rows})
    IN  [index |-> idx,
         columns |-> cols,
         values |-> [i \in 1..Len(idx) |-> [j \in 1..Len(cols) |->
            Aggregate({r \in rows : r.weekday = idx[i]
                                    /\ <<r.year, r.week>> = cols[j]})]]]

WeekdayNames == <<"Monday", "Tuesday", "Wednesday", "Thursday", "Friday">>

\* Line 232 raises ValueError (length mismatch) unless the table has five rows
SetIndexRaises(table) == Len(table.index) # Len(WeekdayNames)

SetIndex(table) == [table EXCEPT !.index = WeekdayNames]

\* The cap with 11 for 10
CapValueAtEleven(x) == IF x.num > 11 * x.den THEN Cell(11, 1) ELSE x

\* Line 250: min(x, 10)
CapValue(x) == IF x.num > 10 * x.den THEN Cell(10, 1) ELSE x

\* DataFrame.map
MapTable(table) ==
    [table EXCEPT !.values =
        [i \in DOMAIN table.values |->
            [j \in DOMAIN table.values[i] |-> CapValue(table.values[i][j])]]]

\* The days events fall on: the turn of the year 2020/2021
EventDays ==
    {<<2020, 12, d>> : d \in (32 - HalfWindow)..31}
        \cup {<<2021, 1, d>> : d \in 1..HalfWindow}

EventHours == {10, 11}

\* occurredAt texts
Timestamps == {<<day[1], day[2], day[3], h>> : day \in EventDays, h \in EventHours}

TextLess(a, b) ==
    \/ ColumnLess(a, b)
    \/ a[1] = b[1] /\ a[2] = b[2] /\ ColumnLess(<<a[3], a[4]>>, <<b[3], b[4]>>)

FetchIdle ==
    /\ start_date = <<>>
    /\ end_date = <<>>
    /\ year_offset = 0
    /\ all_contributions = <<>>
    /\ calls = <<>>
    /\ from_date = <<>>
    /\ contributions = <<>>
    /\ cursor = None
    /\ log = <<>>
    /\ pc = "idle"
    /\ exc = ""

InitHeatmap ==
    /\ FetchIdle
    /\ dates = <<>>
    /\ hpc = "input"
    /\ df = {}
    /\ pivot = <<>>
    /\ heatmap_data = <<>>

\* One more event in the list handed over; the lists are in time order, on
\* which no step of the aggregation depends
AddDate(s) ==
    /\ hpc = "input"
    /\ Len(dates) < MaxDates
    /\ IF dates = <<>> THEN TRUE ELSE ~TextLess(s, dates[Len(dates)])
    /\ dates' = Append(dates, s)
    /\ UNCHANGED <<hpc, df, pivot, heatmap_data, fetchVars>>

\* Lines 212-250
GeneratePlotlyHeatmap ==
    /\ hpc = "input"
    /\ LET parsed == [i \in DOMAIN dates |-> ToDatetime(dates[i])]
           rows == WeekdayRows(GroupByDate(parsed))
           table == PivotTable(rows)
       IN  /\ df' = rows
           /\ pivot' = table
           /\ IF SetIndexRaises(table)
              THEN /\ heatmap_data' = table
                   /\ hpc' = "raised"
              ELSE /\ heatmap_data' = MapTable(SetIndex(table))
                   /\ hpc' = "done"
    /\ UNCHANGED <<dates, fetchVars>>

NextHeatmap ==
    \/ \E s \in Timestamps : AddDate(s)
    \/ GeneratePlotlyHeatmap

SpecHeatmap == InitHeatmap /\ [][NextHeatmap]_vars

---------------------------------------------------------------------------
(* The cap on its own: labelled grids with any cell values *)

InitCap ==
    /\ FetchIdle
    /\ dates = <<>>
    /\ df = {}
    /\ hpc = "labelled"
    /\ \E r \in 1..Len(WeekdayNames), x \in 0..MaxCount, y \in 0..MaxCount :
        pivot = [index |-> WeekdayNames,
                 columns |-> <<<<2020, 53>>, <<2021, 1>>>>,
                 values |-> [i \in 1..Len(WeekdayNames) |->
                    [j \in 1..2 |-> IF i = r /\ j = 1 THEN Cell(x, 1) ELSE Cell(y, 1)]]]
    /\ heatmap_data = pivot

\* Line 250
ApplyCap ==
    /\ hpc = "labelled"
    /\ heatmap_data' = MapTable(heatmap_data)
    /\ hpc' = "done"
    /\ UNCHANGED <<dates, df, pivot, fetchVars>>

NextCap == ApplyCap

SpecCap == InitCap /\ [][NextCap]_vars

---------------------------------------------------------------------------
(* What the log shows *)

FirstRepoPageInfo(data) ==
    data.commitContributionsByRepository[1].contributions.pageInfo

HasRepos(data) == data.commitContributionsByRepository # <<>>

FirstOfWindow(i) == i = 1 \/ log[i - 1].window # log[i].window

LastOfWindow(i) == i = Len(log) \/ log[i + 1].window # log[i].window

\* The call for window w has returned its list (line 127)
Returned(w) == year_offset >= w

\* The loop is about to post the request after the i-th
Pending(i) == i = Len(log) /\ pc = "fetch" /\ log[i].window = Len(calls)

RECURSIVE Extracted(_)
\* The events of the error-free responses of a stretch of the log, in order
Extracted(entries) ==
    IF entries = <<>> THEN <<>>
    ELSE (IF Head(entries).data.errors THEN <<>>
          ELSE ExtractContributions(Head(entries).data))
         \o Extracted(Tail(entries))

IsPrefix(s, t) == Len(s) <= Len(t) /\ SubSeq(t, 1, Len(s)) = s

---------------------------------------------------------------------------
(* Claims on the fetch *)

\* C2: a response carrying `errors` is the last request of its year window,
\* the window's fetch returns normally, and the events of every earlier
\* error-free response (of this window and of earlier windows) stay, in
\* order, in the list fetch_all_contributions builds and returns.
C2_ErrorsEndWindowKeepEvents ==
    \A i \in 1..Len(log) :
        log[i].data.errors =>
            /\ LastOfWindow(i)
            /\ Returned(log[i].window)
            /\ IsPrefix(Extracted(SubSeq(log, 1, i)), all_contributions)

\* C2 witness: the run returned after a second window whose second response
\* carried errors, with the first window's events in the result.
C2_Witness ==
    /\ pc = "done"
    /\ \E i \in 2..Len(log) :
        /\ log[i].data.errors
        /\ log[i].window = 2
        /\ log[i - 1].window = 2
        /\ i > 2
        /\ Len(all_contributions) >= 4

\* C3: in every window the first request carries no cursor and the window's
\* from_date; a later request exists only after an error-free response whose
\* commit page info reported hasNextPage=true, and carries that response's
\* endCursor; after hasNextPage=true the loop goes on, after hasNextPage=false
\* it returns; and the list returned is the concatenation, in request order,
\* of the events extracted from the responses.
C3_PaginationFollowsCommitCursor ==
    /\ \A i \in 1..Len(log) :
        /\ FirstOfWindow(i) =>
            /\ log[i].query.after = <<>>
            /\ log[i].query.from = calls[log[i].window]
        /\ ~FirstOfWindow(i) =>
            /\ ~log[i - 1].data.errors
            /\ HasRepos(log[i - 1].data)
            /\ FirstRepoPageInfo(log[i - 1].data).hasNextPage
            /\ log[i].query.after = <<FirstRepoPageInfo(log[i - 1].data).endCursor>>
            /\ log[i].query.from = log[i - 1].query.from
        /\ (~log[i].data.errors /\ HasRepos(log[i].data)) =>
            IF FirstRepoPageInfo(log[i].data).hasNextPage
            THEN ~LastOfWindow(i) \/ Pending(i)
            ELSE LastOfWindow(i) /\ Returned(log[i].window)
    /\ pc \in {"loop", "done"} => all_contributions = Extracted(log)
    /\ pc = "fetch" => all_contributions \o contributions = Extracted(log)

\* C3 witness: a window of two requests (hasNextPage true, then false) has
\* returned, after an earlier window that ended on errors with a cursor set.
C3_Witness ==
    /\ pc = "done"
    /\ Len(log) = 4
    /\ log[1].window = 1 /\ log[2].window = 1
    /\ FirstRepoPageInfo(log[1].data).hasNextPage
    /\ log[2].data.errors
    /\ log[3].window = 2 /\ log[4].window = 2
    /\ FirstRepoPageInfo(log[3].data).hasNextPage
    /\ ~log[4].data.errors /\ HasRepos(log[4].data)
    /\ ~FirstRepoPageInfo(log[4].data).hasNextPage
    /\ log[3].query.after = <<>>
    /\ log[4].query.after # <<>>
    /\ Len(all_contributions) = Len(Extracted(log))

\* C4 (as claimed): when fetch_all_contributions ends, other than by an
\* IndexError out of a per-year fetch, the per-year fetch has been invoked
\* exactly endYear - startYear times, in ascending year order, the i-th with
\* the start date's month and day and the year startYear + i.
C4_OneFetchPerYear ==
    (pc \in {"done", "raised"} /\ exc # "IndexError"
        /\ end_date.year >= start_date.year) =>
        calls = [i \in 1..(end_date.year - start_date.year) |->
                    <<start_date.year + i - 1, start_date.month, start_date.day>>]

\* A year window: the year beginning at a queried window start date
InWindow(d, from) ==
    /\ ~DateLess(d, Strptime(from))
    /\ DateLess(d, Date(from[1] + 1, from[2], from[3]))

CalendarDays ==
    {d \in [year : Years, month : 1..12, day : 1..31] :
        ValidDate(d.year, d.month, d.day)}

\* C5 (as claimed): when fetch_all_contributions has returned for
\* start < end, every day d with start <= d < end lies in a queried window.
C5_WholePeriodQueried ==
    (pc = "done" /\ DateLess(start_date, end_date)) =>
        \A d \in CalendarDays :
            (~DateLess(d, start_date) /\ DateLess(d, end_date)) =>
                \E i \in 1..Len(calls) : InWindow(d, calls[i])

\* C6: a pass of the loop that received an error-free response goes on to
\* another request if and only if the page info of the first repository
\* entry reports hasNextPage=true, whatever the other sub-collections
\* report, and the cursor for that request is that page info's endCursor.
C6_OnlyCommitPageInfoDecides ==
    [][(Len(log') = Len(log) + 1
            /\ ~log'[Len(log')].data.errors
            /\ HasRepos(log'[Len(log')].data)) =>
         LET info == FirstRepoPageInfo(log'[Len(log')].data)
         IN  /\ (pc' = "fetch") <=> info.hasNextPage
             /\ info.hasNextPage => cursor' = info.endCursor
             /\ ~info.hasNextPage => pc' = "loop"]_vars

\* C6 witness: a response whose first repository entry reports
\* hasNextPage=false while another repository entry and the other
\* sub-collections report true ended its window, and a response with the
\* flags the other way round was followed by another request.
C6_Witness ==
    \E i, j \in 1..Len(log) :
        /\ ~log[i].data.errors
        /\ Len(log[i].data.commitContributionsByRepository) >= 2
        /\ ~FirstRepoPageInfo(log[i].data).hasNextPage
        /\ log[i].data.commitContributionsByRepository[2].contributions.pageInfo.hasNextPage
        /\ log[i].data.issueContributions.pageInfo.hasNextPage
        /\ LastOfWindow(i) /\ Returned(log[i].window)
        /\ ~log[j].data.errors
        /\ HasRepos(log[j].data)
        /\ FirstRepoPageInfo(log[j].data).hasNextPage
        /\ ~log[j].data.issueContributions.pageInfo.hasNextPage
        /\ ~LastOfWindow(j)

\* C7 (as claimed): after every error-free response the loop either posts
\* one further request or returns normally, and it has returned after every
\* response that carries errors or reports hasNextPage=false.
C7_LoopEndsOnlyByReturning ==
    \A i \in 1..Len(log) :
        IF log[i].data.errors
        THEN LastOfWindow(i) /\ Returned(log[i].window)
        ELSE \/ ~LastOfWindow(i)
             \/ Pending(i)
             \/ Returned(log[i].window)

---------------------------------------------------------------------------
(* Claims on the heatmap *)

SameDay(a, b) == a[1] = b[1] /\ a[2] = b[2] /\ a[3] = b[3]

DayLess(a, b) == ColumnLess(a, b) \/ (a[1] = b[1] /\ a[2] = b[2] /\ a[3] < b[3])

IsWorkday(s) == Weekday(ToDatetime(s)) < 5

\* The events of the input that belong in the cell (weekday wd, column col)
EventsOfCell(wd, col) ==
    {k \in DOMAIN dates :
        /\ Weekday(ToDatetime(dates[k])) = wd
        /\ <<YearOf(ToDatetime(dates[k])), IsoWeek(ToDatetime(dates[k]))>> = col}

\* C1 (as claimed): the grid built by pivot_table holds, in the cell for
\* (weekday, year, ISO week) of each Monday-Friday date of the input, the
\* number of input timestamps on that date, and every cell no Monday-Friday
\* event belongs to is 0, so that weekend events add to no cell.
C1_CellsCountEventsOfDay ==
    hpc \in {"done", "raised"} =>
        /\ \A k \in DOMAIN dates :
            IsWorkday(dates[k]) =>
                \E i \in DOMAIN pivot.index, j \in DOMAIN pivot.columns :
                    /\ pivot.index[i] = Weekday(ToDatetime(dates[k]))
                    /\ pivot.columns[j] = <<YearOf(ToDatetime(dates[k])),
                                            IsoWeek(ToDatetime(dates[k]))>>
                    /\ pivot.values[i][j].num = pivot.values[i][j].den *
                        Cardinality({n \in DOMAIN dates : SameDay(dates[n], dates[k])})
        /\ \A i \in DOMAIN pivot.index, j \in DOMAIN pivot.columns :
            EventsOfCell(pivot.index[i], pivot.columns[j]) = {} =>
                pivot.values[i][j].num = 0

ColumnOf(s) ==
    CHOOSE j \in DOMAIN pivot.columns :
        pivot.columns[j] = <<YearOf(ToDatetime(s)), IsoWeek(ToDatetime(s))>>

\* C8 (as claimed): for any two Monday-Friday event dates d1 < d2 of the
\* input, the column holding d1 is at the same or a lower index than the
\* column holding d2.
C8_ColumnsChronological ==
    hpc \in {"done", "raised"} =>
        \A a, b \in DOMAIN dates :
            (IsWorkday(dates[a]) /\ IsWorkday(dates[b]) /\ DayLess(dates[a], dates[b])) =>
                ColumnOf(dates[a]) <= ColumnOf(dates[b])

\* C9: the cap maps every cell value x of the grid to min(x, 10): a value of
\* 10 or less is unchanged, a value above 10 becomes 10, no cell exceeds 10
\* afterwards, and capping the capped value changes nothing.
C9_CapIsMinWithTen ==
    hpc = "done" =>
        \A i \in DOMAIN pivot.values : \A j \in DOMAIN pivot.values[i] :
            LET x == pivot.values[i][j]
                y == heatmap_data.values[i][j]
            IN  /\ y.den = 1
                /\ x.num <= 10 => y.num = x.num
                /\ x.num > 10 => y.num = 10
                /\ y.num <= 10
                /\ CapValue(y) = y

\* C9 witness: a grid holding 25 and 11 has been capped, both to 10.
C9_Witness ==
    /\ hpc = "done"
    /\ \E i \in DOMAIN pivot.values :
        /\ pivot.values[i][1].num = 25
        /\ pivot.values[i][2].num = 11
        /\ heatmap_data.values[i][1].num = 10
        /\ heatmap_data.values[i][2].num = 10

\* C10 (as claimed): for every event list, grid construction completes
\* without failing and yields exactly the five rows Monday to Friday, in
\* that order, with 0 in every cell no event belongs to.
C10_AlwaysFiveRows ==
    hpc \in {"done", "raised"} =>
        /\ hpc = "done"
        /\ heatmap_data.index = WeekdayNames
        /\ \A i \in DOMAIN heatmap_data.values : \A j \in DOMAIN heatmap_data.columns :
            EventsOfCell(i - 1, heatmap_data.columns[j]) = {} =>
                heatmap_data.values[i][j].num = 0

===========================================================================
